---- MODULE Spec2Model ----
(***************************************************************************)
(* Model of dwave/system/temperatures.py: the maximum pseudo-likelihood    *)
(* temperature estimator, its bootstrap loop and the effective-field       *)
(* computation it is fed by (Spec, SpecSearch, SpecField), the unit        *)
(* conversions (SpecUnits) and fast_effective_temperature (SpecFast); and  *)
(* of the CutOffComposite the tests of tests/test_cutoffcomposite.py       *)
(* exercise (SpecCut).                                                     *)
(*                                                                         *)
(* Numbers.  Temperatures and inverse temperatures x = -1/T are exact      *)
(* rationals <<n, d>> with d >= 0; d = 0 stands for the IEEE infinities    *)
(* that numpy produces.  Energies are integers.  The bracket, T_guess and  *)
(* the other scalar arguments are Python numbers, so a division by a zero  *)
(* argument raises ZeroDivisionError.  exp() is evaluated in fixed point   *)
(* (thousandths) on an integer exponent and saturates to 0 / +inf beyond   *)
(* ExpSat, as the float64 exponential does beyond its range.               *)
(***************************************************************************)
EXTENDS Integers, Sequences, FiniteSets, TLC

\* Python's None where a tuple or sequence is expected, where an object is
\* expected, and where an exception or warning name is expected
None == <<>>
NoObject == [none |-> TRUE]
Nothing == "None"

(* ------------------------------ bounds --------------------------------- *)
\* largest number of rows (samples) of an effective-field matrix
MaxSamples == 2
\* largest num_bootstrap_samples
MaxBootstrap == 2
\* |exponent| from which exp() saturates
ExpSat == 10
\* the root searches work on the grid of x values m / XDen
XDen == 1000
\* number of states of the process-wide numpy generator
RngMod == 8
\* uses of the process-wide generator by other code between the invocations
MaxOtherUses == 1
\* significant bits of a floating-point number in the unit conversions
MantBits == 4

(* ----------------------------- rationals ------------------------------- *)
Abs(n) == IF n < 0 THEN -n ELSE n

RECURSIVE GCD(_, _)
GCD(a, b) == IF b = 0 THEN a ELSE GCD(b, a % b)

Norm(q) ==
    LET g == GCD(Abs(q[1]), Abs(q[2]))
    IN  IF g = 0 THEN q ELSE <<q[1] \div g, q[2] \div g>>

RLt(a, b) == a[1] * b[2] < b[1] * a[2]
RLe(a, b) == a[1] * b[2] <= b[1] * a[2]
REq(a, b) == a[1] * b[2] = b[1] * a[2]
RMid(a, b) == Norm(<<a[1] * b[2] + b[1] * a[2], 2 * a[2] * b[2]>>)

RZero == <<0, 1>>
NegInf == <<-1, 0>>

\* -1/T for T # 0
NegInv(T) == IF T[1] > 0 THEN Norm(<<-T[2], T[1]>>) ELSE Norm(<<T[2], -T[1]>>)

\* -1/x on a numpy float: a zero divisor gives -inf (with a RuntimeWarning)
NpNegInv(x) == IF x[1] = 0 THEN NegInf ELSE NegInv(x)

(* -------------------------- effective_field ---------------------------- *)
\* A binary quadratic model is [vartype, variables, linear, quadratic]:
\* variables is the declared order of the labels, linear[v] the bias of label
\* v, quadratic a sequence of <<u, v, bias>> holding every unordered pair
\* once.  samples_like is None or <<matrix, labels>>: rows are samples, the
\* labels name the columns.  Biases are integers (thousandths).

IndexOf(seq, x) == CHOOSE k \in 1..Len(seq) : seq[k] = x

\* dimod.sampleset.as_samples(samples): the array and the labels of its columns
as_samples(samples_like) == [samples |-> samples_like[1], labels |-> samples_like[2]]

\* np.ones(shape=(1, n))
np_ones(n) == << [i \in 1..n |-> 1] >>

\* sum of the biases of the interactions of label v, from position k on
RECURSIVE IncidentSum(_, _, _)
IncidentSum(quadratic, v, k) ==
    IF k > Len(quadratic) THEN 0
    ELSE (IF quadratic[k][1] = v \/ quadratic[k][2] = v THEN quadratic[k][3] ELSE 0)
         + IncidentSum(quadratic, v, k + 1)

\* bqm.change_vartype('SPIN') of a BINARY model, x = (s + 1) / 2:
\* a x -> a/2 s, and b x y -> b/4 (s t + s + t); the offset is not used
change_vartype(bqm_) ==
    [vartype |-> "SPIN",
     variables |-> bqm_.variables,
     linear |-> [v \in DOMAIN bqm_.linear |->
                    bqm_.linear[v] \div 2 + IncidentSum(bqm_.quadratic, v, 1) \div 4],
     quadratic |-> [k \in 1..Len(bqm_.quadratic) |->
                    <<bqm_.quadratic[k][1], bqm_.quadratic[k][2],
                      bqm_.quadratic[k][3] \div 4>>]]

\* bqm.to_numpy_vectors(variable_order=labels): the linear biases in the
\* order of labels, and per interaction the two column indices and the bias
to_numpy_vectors(bqm_, labels) ==
    [h |-> [k \in 1..Len(labels) |-> bqm_.linear[labels[k]]],
     irow |-> [k \in 1..Len(bqm_.quadratic) |-> IndexOf(labels, bqm_.quadratic[k][1])],
     icol |-> [k \in 1..Len(bqm_.quadratic) |-> IndexOf(labels, bqm_.quadratic[k][2])],
     qdata |-> [k \in 1..Len(bqm_.quadratic) |-> bqm_.quadratic[k][3]]]

\* np.add.at(vec, index, values), applied from position k on
RECURSIVE AddAt(_, _, _, _)
AddAt(vec, index, values, k) ==
    IF k > Len(index) THEN vec
    ELSE AddAt([vec EXCEPT ![index[k]] = @ + values[k]], index, values, k + 1)

\* lines 135-136 for one sample: both ends of every interaction receive it
AccumulateRowsOnly(vec, sample) ==
    AddAt(vec.h, vec.irow,
          [k \in 1..Len(vec.qdata) |-> vec.qdata[k] * sample[vec.icol[k]]], 1)
Accumulate(vec, sample) ==
    AddAt(AddAt(vec.h, vec.irow,
                [k \in 1..Len(vec.qdata) |-> vec.qdata[k] * sample[vec.icol[k]]], 1),
          vec.icol,
          [k \in 1..Len(vec.qdata) |-> vec.qdata[k] * sample[vec.irow[k]]], 1)

\* lines 138-140
FlipEnergyUnsigned(sample, fields) == [i \in 1..Len(fields) |-> 2 * fields[i]]
FlipEnergy(sample, fields) == [i \in 1..Len(fields) |-> 2 * sample[i] * fields[i]]

\* lines 120-124: the order of the columns
ColumnLabelsOfModel(bqm_, samples_like) == bqm_.variables
ColumnLabels(bqm_, samples_like) ==
    IF samples_like = None THEN bqm_.variables ELSE as_samples(samples_like).labels

\* line 128
ToSpinIdentity(samples) == samples
ToSpin(samples) ==
    [s \in 1..Len(samples) |-> [i \in 1..Len(samples[s]) |-> 2 * samples[s][i] - 1]]

effective_field(bqm_, samples_like, current_state_energy) ==
    LET labels == ColumnLabels(bqm_, samples_like)
        given == IF samples_like = None
                 THEN np_ones(Len(bqm_.variables))
                 ELSE as_samples(samples_like).samples
        binary == bqm_.vartype = "BINARY"
        spin == IF binary THEN change_vartype(bqm_) ELSE bqm_
        samples == IF binary THEN ToSpin(given) ELSE given
        vec == to_numpy_vectors(spin, labels)
    IN  << [s \in 1..Len(samples) |->
                IF current_state_energy
                THEN FlipEnergy(samples[s], Accumulate(vec, samples[s]))
                ELSE Accumulate(vec, samples[s])],
            labels >>

(* --------------------- the pseudo-likelihood objective ----------------- *)
\* 1000 * e^n, n = 0..11, and 1000 * e^-n, rounded
ExpMilliPos == <<1000, 2718, 7389, 20086, 54598, 148413, 403429, 1096633,
                 2980958, 8103084, 22026466, 59874142>>
ExpMilliNeg == <<1000, 368, 135, 50, 18, 7, 2, 1, 0, 0, 0, 0>>

\* one summand f / (1 + exp(f * x)) of d_mean_log_pseudo_likelihood
Term(f, x) ==
    LET e == (f * x[1]) \div x[2]
    IN  IF e >= ExpSat THEN 0
        ELSE IF e <= -ExpSat THEN f
        ELSE IF e >= 0 THEN (f * 1000) \div (1000 + ExpMilliPos[e + 1])
        ELSE (f * 1000) \div (1000 + ExpMilliNeg[1 - e])

RECURSIVE SumSeq(_)
SumSeq(s) == IF Len(s) = 0 THEN 0 ELSE Head(s) + SumSeq(Tail(s))

RECURSIVE MaxSeq(_)
MaxSeq(s) ==
    IF Len(s) = 1 THEN s[1]
    ELSE LET m == MaxSeq(Tail(s)) IN IF s[1] > m THEN s[1] ELSE m

d_mean_log_pseudo_likelihood(se, x) ==
    SumSeq([s \in 1..Len(se) |-> SumSeq([i \in 1..Len(se[s]) |-> Term(se[s][i], x)])])

max_excitation_all(se) == MaxSeq([s \in 1..Len(se) |-> MaxSeq(se[s])])

(* ------------------------- the root searches --------------------------- *)
\* the loop of scipy's bisect on the grid points xa..xb: halve the interval,
\* keep the half whose left end has the sign of f(a), stop at a zero or at
\* the resolution of the grid; the result is the grid point as a fraction
RECURSIVE GridBisect(_, _, _, _)
GridBisect(se, xa, xb, fa) ==
    LET xm == (xa + xb) \div 2
        fm == d_mean_log_pseudo_likelihood(se, <<xm, XDen>>)
    IN  IF xb - xa <= 1 THEN Norm(<<xa, XDen>>)
        ELSE IF fm = 0 THEN Norm(<<xm, XDen>>)
        ELSE IF fm * fa >= 0 THEN GridBisect(se, xm, xb, fa)
        ELSE GridBisect(se, xa, xm, fa)

\* optimize.root_scalar(f, x0, method='bisect', bracket=[a, b]); x0 is not
\* used by the bisection
root_scalar_bisect(se, a, b) ==
    LET fa == d_mean_log_pseudo_likelihood(se, a)
        fb == d_mean_log_pseudo_likelihood(se, b)
        am == -((-(a[1] * XDen)) \div a[2])
        bm == (b[1] * XDen) \div b[2]
    IN  IF fa * fb > 0 THEN [exc |-> "ValueError", root |-> None]
        ELSE IF fa = 0 THEN [exc |-> Nothing, root |-> a]
        ELSE IF fb = 0 THEN [exc |-> Nothing, root |-> b]
        ELSE IF am > bm THEN [exc |-> Nothing, root |-> a]
        ELSE [exc |-> Nothing, root |-> GridBisect(se, am, bm, fa)]

\* the results optimize.root_scalar(f, x0, fprime) can end on: the Newton
\* iteration is not guaranteed to converge, a root of either sign or zero may
\* come back
NewtonOutcomes == {<<-1, XDen>>, RZero, <<1, XDen>>}

(* ------------------ maximum_pseudolikelihood_temperature --------------- *)
IsZero(T) == T[1] = 0 /\ T[2] # 0

\* x0 of lines 287-295
InitialPoint(maxAll, Tg, br) ==
    IF Tg = None THEN [exc |-> Nothing, x0 |-> Norm(<<-1, maxAll>>)]
    ELSE LET d == IF RLt(Tg, br[1]) THEN br[1]
                  ELSE IF RLt(br[2], Tg) THEN br[2]
                  ELSE Tg
         IN  IF IsZero(d) THEN [exc |-> "ZeroDivisionError", x0 |-> None]
             ELSE [exc |-> Nothing, x0 |-> NegInv(d)]

\* line 267: no local excitation in the sample set
NoExcitationsStrict(maxAll) == maxAll < 0
NoExcitations(maxAll) == maxAll <= 0

\* line 299: 0 <= T_bracket[0] < T_bracket[1]
BracketOk(br) == RLe(RZero, br[1]) /\ RLt(br[1], br[2])

\* line 304: the objective is negative at the lower temperature bound
BelowBracketFlipped(se, a) == d_mean_log_pseudo_likelihood(se, a) > 0
BelowBracket(se, a) == d_mean_log_pseudo_likelihood(se, a) < 0

\* line 314: the objective is positive at the upper temperature bound
AboveBracketFlipped(se, b) == d_mean_log_pseudo_likelihood(se, b) < 0
AboveBracket(se, b) == d_mean_log_pseudo_likelihood(se, b) > 0

\* line 330: T_estimate = -1/root, root a Python float
RootToTemperatureRaw(root) == root
RootToTemperature(root) == NegInv(root)

NoEstimate ==
    [exc |-> Nothing, T_estimate |-> RZero, x0 |-> None, root |-> None,
     warned |-> Nothing, evaluated |-> {}, searched |-> FALSE]

\* lines 326-327: an initial point outside the bracket gives way to the middle
SearchStartAsGiven(x0, a, b) == x0
SearchStart(x0, a, b) == IF RLt(x0, a) \/ RLt(b, x0) THEN RMid(a, b) ELSE x0

\* lines 297-330
BisectBranch(se, x0, br) ==
    LET r0 == [NoEstimate EXCEPT !.x0 = x0]
    IN  IF ~BracketOk(br) THEN [r0 EXCEPT !.exc = "ValueError"]
        ELSE IF IsZero(br[1]) \/ IsZero(br[2])
        THEN [r0 EXCEPT !.exc = "ZeroDivisionError"]
        ELSE
        LET a == NegInv(br[1])
            b == NegInv(br[2])
        IN  IF BelowBracket(se, a)
            THEN [r0 EXCEPT !.warned = "below", !.T_estimate = br[1],
                            !.evaluated = {"lo"}]
            ELSE IF AboveBracket(se, b)
            THEN [r0 EXCEPT !.warned = "above", !.T_estimate = br[2],
                            !.evaluated = {"lo", "hi"}]
            ELSE
            LET x1 == SearchStart(x0, a, b)
                rr == root_scalar_bisect(se, a, b)
                r1 == [r0 EXCEPT !.x0 = x1, !.evaluated = {"lo", "hi"},
                                 !.searched = TRUE]
            IN  IF rr.exc # Nothing THEN [r1 EXCEPT !.exc = rr.exc]
                ELSE IF IsZero(rr.root) THEN [r1 EXCEPT !.exc = "ZeroDivisionError"]
                ELSE [r1 EXCEPT !.root = rr.root, !.T_estimate = RootToTemperature(rr.root)]

\* lines 331-346; newton is the root the search ended on
NewtonBranch(x0, newton) ==
    [NoEstimate EXCEPT !.x0 = x0, !.root = newton, !.searched = TRUE,
                       !.T_estimate = NpNegInv(newton)]

\* lines 265-346: the point estimate of one call
PointEstimate(se, Tg, method, br, newton) ==
    LET maxAll == max_excitation_all(se)
        ip     == InitialPoint(maxAll, Tg, br)
    IN  IF NoExcitations(maxAll) THEN NoEstimate
        ELSE IF ip.exc # Nothing THEN [NoEstimate EXCEPT !.exc = ip.exc]
        ELSE IF method = "bisect" THEN BisectBranch(se, ip.x0, br)
        ELSE NewtonBranch(ip.x0, newton)

\* lines 271 and 347: the bootstrap sits in the branch with excitations
EntersBootstrapAlways(se, n) == n > 0
EntersBootstrap(se, n) == ~NoExcitations(max_excitation_all(se)) /\ n > 0

\* line 259: site_energy cannot be derived
MissingInputsBqmOnly(a) == a.bqm = NoObject
MissingInputs(a) == a.bqm = NoObject \/ a.sampleset = None

\* the defaults of the signature, line 150-151
DefaultMethod == "bisect"
DefaultBracket == << <<1, 1000>>, <<1000, 1>> >>

(* ------------------------------ the inputs ----------------------------- *)
\* rows of excitation energies a sample can show
RowVals == {<<1000, -1000>>, <<-1000, -1000>>, <<0, -1000>>}
Labels == <<1, 2>>
SiteEnergies ==
    {<<m, Labels>> : m \in UNION {[1..n -> RowVals] : n \in 1..MaxSamples}}

\* a ferromagnetic pair, H = -500 s1 s2, and sample sets over it
Pair == [vartype |-> "SPIN", variables |-> Labels, linear |-> <<0, 0>>,
         quadratic |-> << <<1, 2, -500>> >>]
Aligned == << << <<1, 1>> >>, Labels >>
Mixed == << << <<1, 1>>, <<1, -1>> >>, Labels >>

Sources ==
    {[bqm |-> NoObject, sampleset |-> None, site_energy |-> se] : se \in SiteEnergies}
    \cup {[bqm |-> Pair, sampleset |-> Mixed, site_energy |-> <<(<<row>>), Labels>>] :
              row \in RowVals}
    \cup {[bqm |-> b, sampleset |-> ss, site_energy |-> None] :
              b \in {NoObject, Pair}, ss \in {None, Aligned, Mixed}}

Brackets == {DefaultBracket,
             << <<500, 1>>, <<1000, 1>> >>,
             << <<1000, 1>>, <<2000, 1>> >>,
             << <<0, 1>>, <<1000, 1>> >>,
             << <<5, 1>>, <<1, 1>> >>,
             << <<500, 1>>, <<500, 1>> >>,
             << <<-1, 1>>, <<0, 1>> >>}
Guesses == {None, <<0, 1>>, <<750, 1>>}
Methods == {"bisect", Nothing}
Seeds == {1}

Arguments ==
    {[bqm |-> src.bqm, sampleset |-> src.sampleset, site_energy |-> src.site_energy,
      num_bootstrap_samples |-> n, seed |-> sd, T_guess |-> g,
      optimize_method |-> m, T_bracket |-> br] :
        src \in Sources, n \in 0..MaxBootstrap, sd \in Seeds, g \in Guesses,
        m \in Methods, br \in Brackets}

(* ------------------------ the process-wide generator ------------------- *)
NextRandom(g) == (5 * g + 3) % RngMod

\* np.random.choice(n, size, replace=True) from generator state g:
\* the indices drawn (0-based) and the state left behind
RECURSIVE Choice(_, _, _)
Choice(g, n, size) ==
    IF size = 0 THEN [indices |-> <<>>, state |-> g]
    ELSE LET rest == Choice(NextRandom(g), n, size - 1)
         IN  [indices |-> <<(g \div 2) % n>> \o rest.indices, state |-> rest.state]

\* lines 354-357: the rows of one replicate
DrawAllRows(g, num_samples, n) == Choice(g, num_samples, num_samples)
Draw(g, num_samples, n) == Choice(g, num_samples, n)

np_zeros(n) == [i \in 1..n |-> RZero]

\* lines 360-361: the arguments of the nested call besides site_energy;
\* optimize_method and T_bracket are not passed and take the defaults of the
\* signature
NestedCallNoGuess(T_est) ==
    [num_bootstrap_samples |-> 0, T_guess |-> None,
     optimize_method |-> DefaultMethod, T_bracket |-> DefaultBracket]
NestedCall(T_est) ==
    [num_bootstrap_samples |-> 0, T_guess |-> T_est,
     optimize_method |-> DefaultMethod, T_bracket |-> DefaultBracket]

(* --------------------------- floating point ---------------------------- *)
\* The unit conversions compute in floating point.  A float is <<m, e>>, the
\* number m * 2^e with MantBits significant bits (2^(MantBits-1) <= |m| <
\* 2^MantBits), or <<0, 0>>; every operation rounds its exact result to the
\* nearest float, ties to even, as IEEE 754 does.  The exponent is unbounded.
RECURSIVE Pow2(_)
Pow2(n) == IF n = 0 THEN 1 ELSE 2 * Pow2(n - 1)

RECURSIVE BitLen(_)
BitLen(n) == IF n = 0 THEN 0 ELSE 1 + BitLen(n \div 2)

FZero == <<0, 0>>

\* the float nearest to n * 2^e
FRound(n, e) ==
    IF n = 0 THEN FZero
    ELSE LET a == Abs(n)
             sgn == IF n < 0 THEN -1 ELSE 1
             bits == BitLen(a)
             k == bits - MantBits
         IN  IF k <= 0 THEN <<sgn * a * Pow2(-k), e + k>>
             ELSE LET m == a \div Pow2(k)
                      rem == a % Pow2(k)
                      half == Pow2(k - 1)
                      m1 == IF rem > half \/ (rem = half /\ m % 2 = 1)
                            THEN m + 1 ELSE m
                  IN  IF m1 = Pow2(MantBits)
                      THEN <<sgn * Pow2(MantBits - 1), e + k + 1>>
                      ELSE <<sgn * m1, e + k>>

FNeg(x) == <<-x[1], x[2]>>
FMul(x, y) == FRound(x[1] * y[1], x[2] + y[2])

\* x / y, y # 0: the quotient to MantBits + 3 bits and a sticky bit
FDiv(x, y) ==
    LET g == MantBits + 3
        num == Abs(x[1]) * Pow2(g)
        q == num \div Abs(y[1])
        sticky == IF num % Abs(y[1]) = 0 THEN 0 ELSE 1
        sgn == IF (x[1] < 0) = (y[1] < 0) THEN 1 ELSE -1
    IN  FRound(sgn * (2 * q + sticky), x[2] - y[2] - g - 1)

\* np.sqrt(x), x > 0
FSqrt(x) ==
    LET odd == x[2] % 2 = 1
        m == IF odd THEN 2 * x[1] ELSE x[1]
        e == IF odd THEN x[2] - 1 ELSE x[2]
        n == m * Pow2(2 * MantBits)
        r == CHOOSE i \in 0..Pow2(2 * MantBits + 1) : i * i <= n /\ n < (i + 1) * (i + 1)
        sticky == IF r * r = n THEN 0 ELSE 1
    IN  FRound(2 * r + sticky, (e \div 2) - MantBits - 1)

\* the literals of the source, written to 21 bits and read as floats
Float(m, e) == FRound(m, e)
One == Float(1, 0)
Two == Float(2, 0)
Planck == Float(1803788, -131)          \* h = 6.62607e-34
Phi0 == Float(1220614, -69)             \* 2.0678e-15
Giga == Float(1953125, 9)               \* 1e9
Pico == Float(1152922, -60)             \* 1e-12
Micro == Float(1099512, -40)            \* 1e-6
Milli == Float(1073742, -30)            \* 1e-3
kB == Float(1093864, -96)               \* 1.3806503e-23
DefaultB == Float(1458569, -20)         \* B = 1.391
DefaultMAFM == Float(1727005, -20)      \* MAFM = 1.647

(* --------------------------- unit conversions -------------------------- *)
Raise(name) == [exc |-> name, value |-> None]
Value(v) == [exc |-> Nothing, value |-> v]

\* lines 427-433
B_multiplier(units_B) == IF units_B = "GHz" THEN FMul(Giga, Planck) ELSE One

\* the else branches of lines 427-433, 436-440 and 443-447
UnrecognizedB(units_B) == units_B \notin {"GHz", "J"}
UnrecognizedMAFM(units_MAFM) == units_MAFM \notin {"pH", "H"}
UnrecognizedIpNever(units_Ip) == FALSE
UnrecognizedIp(units_Ip) == units_Ip \notin {"uA", "A"}

Ip_in_units_of_B(Ip, B, MAFM, units_Ip, units_B, units_MAFM) ==
    IF UnrecognizedB(units_B) THEN Raise("ValueError")
    ELSE IF Ip = None
    THEN IF UnrecognizedMAFM(units_MAFM) THEN Raise("ValueError")
         ELSE LET BJ == FMul(B, B_multiplier(units_B))
                  M == IF units_MAFM = "pH" THEN FMul(MAFM, Pico) ELSE MAFM
                  IpA == FSqrt(FDiv(BJ, FMul(Two, M)))
              IN  Value(FDiv(FMul(IpA, Phi0), B_multiplier(units_B)))
    ELSE IF UnrecognizedIp(units_Ip) THEN Raise("ValueError")
         ELSE LET IpA == IF units_Ip = "uA" THEN FMul(Ip, Micro) ELSE Ip
              IN  Value(FDiv(FMul(IpA, Phi0), B_multiplier(units_B)))

\* line 511: -B/2/Ip*h
HToFluxbiasFactor(B, Ip, h) == FMul(FDiv(FDiv(FNeg(B), Two), Ip), h)

h_to_fluxbias(h, Ip, B, MAFM, units_Ip, units_B, units_MAFM) ==
    LET ip == Ip_in_units_of_B(Ip, B, MAFM, units_Ip, units_B, units_MAFM)
    IN  IF ip.exc # Nothing THEN ip ELSE Value(HToFluxbiasFactor(B, ip.value, h))

\* line 573: -2*Ip/B*fluxbias
FluxbiasToHFactorHalved(B, Ip, fluxbias) == FMul(FDiv(FNeg(Ip), B), fluxbias)
FluxbiasToHFactor(B, Ip, fluxbias) == FMul(FDiv(FMul(FNeg(Two), Ip), B), fluxbias)

fluxbias_to_h(fluxbias, Ip, B, MAFM, units_Ip, units_B, units_MAFM) ==
    LET ip == Ip_in_units_of_B(Ip, B, MAFM, units_Ip, units_B, units_MAFM)
    IN  IF ip.exc # Nothing THEN ip ELSE Value(FluxbiasToHFactor(B, ip.value, fluxbias))

\* lines 666 and 674 raise ValueException, a name that is defined nowhere:
\* evaluating it raises NameError
UnitErrorOfFreezeout == "NameError"

freezeout_effective_temperature(freezeout_B, temperature, units_B, units_T) ==
    IF units_B \notin {"GHz", "J"} THEN Raise(UnitErrorOfFreezeout)
    ELSE IF units_T \notin {"mK", "K"} THEN Raise(UnitErrorOfFreezeout)
    ELSE LET BJ == IF units_B = "GHz" THEN FMul(FMul(freezeout_B, Planck), Giga)
                   ELSE freezeout_B
             TK == IF units_T = "mK" THEN FMul(temperature, Milli) ELSE temperature
         IN  Value(FDiv(FMul(FMul(Two, TK), kB), BJ))

(* ------------------------------- the state ----------------------------- *)
VARIABLES
    args,                   \* the arguments of the invocations
    pc,                     \* position of the running invocation
    invocation,             \* 1 or 2: which invocation with these arguments
    site_energy,            \* local: the (matrix, labels) pair in use
    T_estimate,
    T_bootstrap_estimates,
    x0,
    root_results,           \* None or the root found
    prng,                   \* None or the RandomState created at line 351
    bs,                     \* bootstrap loop counter
    exception,              \* None or the exception raised
    warned,                 \* None, "below" or "above": warnings.warn issued
    evaluated,              \* bracket ends the objective was evaluated at
    searched,               \* a root search was run by this invocation
    replicates,             \* per replicate: indices drawn, matrix passed on
    np_random,              \* state of the process-wide numpy generator
    other_uses,             \* draws made by other code
    first_result,           \* None or what invocation 1 returned
    call,                   \* the public function called and its arguments
    at,                     \* position of that call
    frame,                  \* its locals, and what the caller kept of a call before
    out,                    \* None or what it raised or returned
    submitted               \* what the sampler has received, in order

locals == <<site_energy, T_estimate, T_bootstrap_estimates, x0, root_results,
            prng, bs, exception, warned, evaluated, searched, replicates>>
estimator == <<args, pc, invocation, locals, np_random, other_uses, first_result>>
entry == <<call, at, frame, out, submitted>>
vars == <<estimator, entry>>

\* nothing has been called yet
EntryIdle ==
    /\ at = "idle"
    /\ frame = None
    /\ out = None
    /\ submitted = <<>>

EstimatorIdle ==
    /\ pc = "idle"
    /\ invocation = 1
    /\ site_energy = None
    /\ T_estimate = None
    /\ T_bootstrap_estimates = None
    /\ x0 = None
    /\ root_results = None
    /\ prng = NoObject
    /\ bs = 0
    /\ exception = Nothing
    /\ warned = Nothing
    /\ evaluated = {}
    /\ searched = FALSE
    /\ replicates = <<>>
    /\ np_random = 0
    /\ other_uses = 0
    /\ first_result = None

Init ==
    /\ args \in Arguments
    /\ EstimatorIdle
    /\ call = [fn |-> "maximum_pseudolikelihood_temperature"]
    /\ EntryIdle

\* lines 254-264: entry, the result defaults, site_energy derived if absent
Call ==
    /\ pc = "idle"
    /\ T_estimate' = RZero
    /\ T_bootstrap_estimates' = np_zeros(args.num_bootstrap_samples)
    /\ IF args.site_energy = None
       THEN IF MissingInputs(args)
            THEN /\ exception' = "ValueError"
                 /\ pc' = "raised"
                 /\ UNCHANGED site_energy
            ELSE /\ site_energy' = effective_field(args.bqm, args.sampleset, TRUE)
                 /\ pc' = "estimate"
                 /\ UNCHANGED exception
       ELSE /\ site_energy' = args.site_energy
            /\ pc' = "estimate"
            /\ UNCHANGED exception
    /\ UNCHANGED <<args, invocation, x0, root_results, prng, bs, warned, evaluated,
                   searched, replicates, np_random, other_uses, first_result>>
    /\ UNCHANGED entry

\* lines 265-346: degenerate case, initial point, bracket checks, root search
Estimate ==
    /\ pc = "estimate"
    /\ \E newton \in IF ~NoExcitations(max_excitation_all(site_energy[1]))
                          /\ args.optimize_method # "bisect"
                          /\ InitialPoint(max_excitation_all(site_energy[1]),
                                          args.T_guess, args.T_bracket).exc = Nothing
                      THEN NewtonOutcomes ELSE {None} :
          LET r == PointEstimate(site_energy[1], args.T_guess, args.optimize_method,
                                 args.T_bracket, newton)
          IN  /\ x0' = r.x0
              /\ root_results' = r.root
              /\ warned' = r.warned
              /\ evaluated' = r.evaluated
              /\ searched' = r.searched
              /\ IF r.exc # Nothing
                 THEN /\ exception' = r.exc
                      /\ pc' = "raised"
                      /\ UNCHANGED T_estimate
                 ELSE /\ T_estimate' = r.T_estimate
                      /\ UNCHANGED exception
                      /\ pc' = IF EntersBootstrap(site_energy[1],
                                                  args.num_bootstrap_samples)
                               THEN "bootstrap" ELSE "return"
    /\ UNCHANGED <<args, invocation, site_energy, T_bootstrap_estimates, prng, bs,
                   replicates, np_random, other_uses, first_result>>
    /\ UNCHANGED entry

\* lines 347-352: entering the bootstrap
SeedBootstrap ==
    /\ pc = "bootstrap"
    /\ x0' = IF root_results # None THEN root_results ELSE x0
    /\ prng' = [seed |-> args.seed]
    /\ bs' = 0
    /\ pc' = "resample"
    /\ UNCHANGED <<args, invocation, site_energy, T_estimate, T_bootstrap_estimates,
                   root_results, exception, warned, evaluated, searched, replicates,
                   np_random, other_uses, first_result>>
    /\ UNCHANGED entry

\* lines 353-361: one replicate, the nested call included
Resample ==
    /\ pc = "resample"
    /\ bs < args.num_bootstrap_samples
    /\ LET num_samples == Len(site_energy[1])
           draw == Draw(np_random, num_samples, args.num_bootstrap_samples)
           sliced == [k \in 1..Len(draw.indices) |-> site_energy[1][draw.indices[k] + 1]]
           nested == NestedCall(T_estimate)
           r == PointEstimate(sliced, nested.T_guess, nested.optimize_method,
                              nested.T_bracket, None)
       IN  /\ np_random' = draw.state
           /\ replicates' = Append(replicates,
                  [indices |-> draw.indices, site_energy |-> <<sliced, site_energy[2]>>,
                   num_bootstrap_samples |-> nested.num_bootstrap_samples,
                   T_guess |-> nested.T_guess,
                   optimize_method |-> nested.optimize_method,
                   T_bracket |-> nested.T_bracket,
                   searched |-> r.searched])
           /\ IF r.exc # Nothing
              THEN /\ exception' = r.exc
                   /\ pc' = "raised"
                   /\ UNCHANGED <<T_bootstrap_estimates, bs>>
              ELSE /\ T_bootstrap_estimates' =
                          [T_bootstrap_estimates EXCEPT ![bs + 1] = r.T_estimate]
                   /\ bs' = bs + 1
                   /\ pc' = IF bs + 1 = args.num_bootstrap_samples
                            THEN "return" ELSE "resample"
                   /\ UNCHANGED exception
    /\ UNCHANGED <<args, invocation, site_energy, T_estimate, x0, root_results, prng,
                   warned, evaluated, searched, other_uses, first_result>>
    /\ UNCHANGED entry

\* line 363
Return ==
    /\ pc = "return"
    /\ pc' = "returned"
    /\ UNCHANGED <<args, invocation, locals, np_random, other_uses, first_result>>
    /\ UNCHANGED entry

\* the caller repeats, with the same arguments, a call that bootstraps
Reinvoke ==
    /\ pc = "returned"
    /\ invocation = 1
    /\ args.num_bootstrap_samples > 0
    /\ first_result' = <<T_estimate, T_bootstrap_estimates>>
    /\ invocation' = 2
    /\ pc' = "idle"
    /\ site_energy' = None
    /\ T_estimate' = None
    /\ T_bootstrap_estimates' = None
    /\ x0' = None
    /\ root_results' = None
    /\ prng' = NoObject
    /\ bs' = 0
    /\ exception' = Nothing
    /\ warned' = Nothing
    /\ evaluated' = {}
    /\ searched' = FALSE
    /\ replicates' = <<>>
    /\ UNCHANGED <<args, np_random, other_uses>>
    /\ UNCHANGED entry

\* between the two invocations, other code of the process draws from the
\* process-wide generator
OtherRandomUse ==
    /\ pc = "idle"
    /\ invocation = 2
    /\ other_uses < MaxOtherUses
    /\ np_random' = NextRandom(np_random)
    /\ other_uses' = other_uses + 1
    /\ UNCHANGED <<args, pc, invocation, locals, first_result>>
    /\ UNCHANGED entry

Next ==
    \/ Call
    \/ Estimate
    \/ SeedBootstrap
    \/ Resample
    \/ Return
    \/ Reinvoke
    \/ OtherRandomUse

Spec == Init /\ [][Next]_vars

(* ----------------- the estimator on a bracket off the data ------------- *)
\* one sample whose largest excitation, 1000, lies below a bracket that
\* holds the root, and the inputs of the main specification around it
SearchArguments ==
    {[bqm |-> NoObject, sampleset |-> None, site_energy |-> <<(<<row>>), Labels>>,
      num_bootstrap_samples |-> n, seed |-> 1, T_guess |-> g,
      optimize_method |-> m, T_bracket |-> br] :
        row \in {<<1000, -2000>>, <<1000, -1000>>}, n \in 0..MaxBootstrap,
        g \in {None, <<750, 1>>, <<2000, 1>>}, m \in Methods,
        br \in {<< <<1500, 1>>, <<3000, 1>> >>, DefaultBracket}}

InitSearch ==
    /\ args \in SearchArguments
    /\ EstimatorIdle
    /\ call = [fn |-> "maximum_pseudolikelihood_temperature"]
    /\ EntryIdle

SpecSearch == InitSearch /\ [][Next]_vars

(* ----------------------- effective_field, called ----------------------- *)
\* the docstring example, lines 111-112: H = -0.5 sum_i s_i s_(i+1), N = 5
Chain == [vartype |-> "SPIN", variables |-> <<1, 2, 3, 4, 5>>,
          linear |-> <<0, 0, 0, 0, 0>>,
          quadratic |-> << <<1, 2, -500>>, <<2, 3, -500>>, <<3, 4, -500>>,
                           <<4, 5, -500>> >>]
\* one coupling, zero linear terms
Coupled(J) == [vartype |-> "SPIN", variables |-> <<1, 2>>, linear |-> <<0, 0>>,
               quadratic |-> << <<1, 2, J>> >>]
\* three variables with linear terms, declared in the order 2, 3, 1
Biased == [vartype |-> "SPIN", variables |-> <<2, 3, 1>>,
           linear |-> <<1000, -2000, 500>>,
           quadratic |-> << <<1, 2, 1000>>, <<3, 2, -3000>> >>]
\* models over {0, 1}
QuboPair == [vartype |-> "BINARY", variables |-> <<1, 2>>, linear |-> <<2000, -4000>>,
             quadratic |-> << <<1, 2, 4000>> >>]
QuboPath == [vartype |-> "BINARY", variables |-> <<1, 2, 3>>,
             linear |-> <<0, 4000, 0>>,
             quadratic |-> << <<1, 2, -4000>>, <<2, 3, 8000>> >>]

Orders(variables) ==
    {p \in [1..Len(variables) -> {variables[k] : k \in 1..Len(variables)}] :
        \A i, j \in 1..Len(variables) : i # j => p[i] # p[j]}
Matrices(n, values) == UNION {[1..k -> [1..n -> values]] : k \in 1..MaxSamples}
SamplesOver(bqm_, values) ==
    {None} \cup {<<m, p>> : m \in Matrices(Len(bqm_.variables), values),
                            p \in Orders(bqm_.variables)}
ChainSamples ==
    {None} \cup {<<(<<row>>), p>> : row \in [1..5 -> {-1, 1}],
                                    p \in {<<1, 2, 3, 4, 5>>, <<5, 4, 3, 2, 1>>}}

CallsOn(b, sampleSets) ==
    {[fn |-> "effective_field", bqm |-> b, samples |-> ss, current_state_energy |-> c] :
        ss \in sampleSets, c \in BOOLEAN}
FieldCalls ==
    UNION {CallsOn(b, SamplesOver(b, {-1, 1})) : b \in {Coupled(1000), Coupled(-500), Biased}}
    \cup UNION {CallsOn(b, SamplesOver(b, {0, 1})) : b \in {QuboPair, QuboPath}}
    \cup CallsOn(Chain, ChainSamples)

\* line 127: change_vartype works on a copy
Inplace == FALSE

InitField ==
    /\ args = None
    /\ EstimatorIdle
    /\ call \in FieldCalls
    /\ EntryIdle

\* lines 120-142; the caller's model object is call.bqm
EffectiveField ==
    /\ at = "idle"
    /\ call.fn = "effective_field"
    /\ out' = [exc |-> Nothing,
               value |-> effective_field(call.bqm, call.samples, call.current_state_energy)]
    /\ call' = [call EXCEPT !.bqm = IF @.vartype = "BINARY" /\ Inplace
                                    THEN change_vartype(@) ELSE @]
    /\ at' = "returned"
    /\ UNCHANGED <<frame, submitted, estimator>>

NextField == EffectiveField

SpecField == InitField /\ [][NextField]_vars

(* ---------------------- unit conversions, called ---------------------- *)
UnitsB == {"GHz", "J", "Hz"}
UnitsT == {"mK", "K", "C"}
Biases == {FZero, One, Float(3, 0), Float(-5, 0), Float(7, -2)}

CurrentCalls(fn, quantity) ==
    LET UnitsMAFM == {"pH", "H", "nH"}
        UnitsIp == {"uA", "A", "mA"}
        Currents == {None, One, Float(3, 0)}
        Schedules == {DefaultB, Float(3, 0)}
        Inductances == {DefaultMAFM, One}
    IN  {[fn |-> fn, quantity |-> q, Ip |-> Ip, B |-> B, MAFM |-> MAFM,
          units_Ip |-> uI, units_B |-> uB, units_MAFM |-> uM] :
            q \in quantity, Ip \in Currents, B \in Schedules, MAFM \in Inductances,
            uI \in UnitsIp, uB \in UnitsB, uM \in UnitsMAFM}
ConversionCalls ==
    CurrentCalls("Ip_in_units_of_B", {None})
    \cup CurrentCalls("h_to_fluxbias", Biases)
    \cup CurrentCalls("fluxbias_to_h", Biases)
    \cup {[fn |-> "freezeout_effective_temperature", freezeout_B |-> fB,
           temperature |-> T, units_B |-> uB, units_T |-> uT] :
            fB \in {Float(2049966, -19), One}, T \in {Float(2018509, -17), Float(3, 0)},
            uB \in UnitsB, uT \in UnitsT}

InitUnits ==
    /\ args = None
    /\ EstimatorIdle
    /\ call \in ConversionCalls
    /\ EntryIdle

\* the call ends raising or returning what the function gave
Ends(result) ==
    /\ out' = result
    /\ at' = IF result.exc # Nothing THEN "raised" ELSE "returned"
    /\ UNCHANGED <<call, frame, submitted, estimator>>

IpInUnitsOfB ==
    /\ at = "idle"
    /\ call.fn = "Ip_in_units_of_B"
    /\ Ends(Ip_in_units_of_B(call.Ip, call.B, call.MAFM,
                             call.units_Ip, call.units_B, call.units_MAFM))

HToFluxbias ==
    /\ at = "idle"
    /\ call.fn = "h_to_fluxbias"
    /\ Ends(h_to_fluxbias(call.quantity, call.Ip, call.B, call.MAFM,
                          call.units_Ip, call.units_B, call.units_MAFM))

FluxbiasToH ==
    /\ at = "idle"
    /\ call.fn = "fluxbias_to_h"
    /\ Ends(fluxbias_to_h(call.quantity, call.Ip, call.B, call.MAFM,
                          call.units_Ip, call.units_B, call.units_MAFM))

FreezeoutEffectiveTemperature ==
    /\ at = "idle"
    /\ call.fn = "freezeout_effective_temperature"
    /\ Ends(freezeout_effective_temperature(call.freezeout_B, call.temperature,
                                            call.units_B, call.units_T))

\* the caller hands the flux bias it received to fluxbias_to_h, with the
\* parameters of the first call, and keeps the h it started from
ConvertBack ==
    /\ at = "returned"
    /\ call.fn = "h_to_fluxbias"
    /\ frame = None
    /\ frame' = <<call.quantity>>
    /\ call' = [call EXCEPT !.fn = "fluxbias_to_h", !.quantity = out.value]
    /\ out' = None
    /\ at' = "idle"
    /\ UNCHANGED <<submitted, estimator>>

NextUnits ==
    \/ IpInUnitsOfB
    \/ HToFluxbias
    \/ FluxbiasToH
    \/ FreezeoutEffectiveTemperature
    \/ ConvertBack

SpecUnits == InitUnits /\ [][NextUnits]_vars

(* -------------------- fast_effective_temperature ----------------------- *)
\* A call is the record of the arguments passed: an argument left out (its
\* default is None) is a field the record does not have.  frame.sampler_params
\* is the caller's dict object as it stands while the call runs.  A dict is a
\* function from its keys; the values of auto_scale are written as Python
\* writes them, "False", "True" or "0".  Biases are integers (thousandths).
Has(d, key) == key \in DOMAIN d
Put(d, key, item) == [k \in DOMAIN d \cup {key} |-> IF k = key THEN item ELSE d[k]]
EmptyDict == [k \in {} |-> 0]

RaiseAt(name, line) == [exc |-> name, value |-> None, line |-> line]

\* line 780
DefaultNumReads == 100

\* lines 761-766: the line that raises, or 0
RangeCheckLowOnly(properties, h_range) ==
    IF ~Has(properties, "h_range") THEN 0
    ELSE IF h_range[1] < properties["h_range"][1] THEN 763
    ELSE 0
RangeCheck(properties, h_range) ==
    IF ~Has(properties, "h_range") THEN 0
    ELSE IF h_range[1] < properties["h_range"][1] THEN 763
    ELSE IF h_range[2] > properties["h_range"][2] THEN 766
    ELSE 0

\* prng.rand(n) of RandomState(seed): n numbers k/4 of [0, 1), as k
rand(seed, n) == Choice(seed % RngMod, 4, n).indices

\* lines 769-770
h_values(h_range, seed, n) ==
    [idx \in 1..n |-> h_range[1] + ((h_range[2] - h_range[1]) * rand(seed, n)[idx]) \div 4]
from_ising(nodelist, values) ==
    [vartype |-> "SPIN", variables |-> nodelist,
     linear |-> [v \in {nodelist[k] : k \in 1..Len(nodelist)} |->
                    values[IndexOf(nodelist, v)]],
     quadratic |-> <<>>]

\* lines 773-776
CopyOfParams(c) == IF Has(c, "sampler_params") THEN c["sampler_params"] ELSE EmptyDict

\* lines 777-786
WithNumReadsOfDict(c, d) ==
    IF ~Has(c, "num_reads")
    THEN Value(IF Has(d, "num_reads") THEN d ELSE Put(d, "num_reads", DefaultNumReads))
    ELSE Value(IF Has(d, "num_reads") THEN d ELSE Put(d, "num_reads", c["num_reads"]))
WithNumReads(c, d) ==
    IF ~Has(c, "num_reads")
    THEN Value(IF Has(d, "num_reads") THEN d ELSE Put(d, "num_reads", DefaultNumReads))
    ELSE IF Has(d, "num_reads") /\ d["num_reads"] # c["num_reads"]
    THEN RaiseAt("ValueError", 783)
    ELSE Value(Put(d, "num_reads", c["num_reads"]))

\* lines 787-792
WithAutoScaleIfTrue(d) ==
    IF Has(d, "auto_scale") /\ d["auto_scale"] = "True"
    THEN RaiseAt("ValueError", 789)
    ELSE Value(Put(d, "auto_scale", "False"))
WithAutoScale(d) ==
    IF Has(d, "auto_scale") /\ d["auto_scale"] # "False"
    THEN RaiseAt("ValueError", 789)
    ELSE Value(Put(d, "auto_scale", "False"))

\* lines 772-792
sampler_params0(c) ==
    LET counted == WithNumReads(c, CopyOfParams(c))
    IN  IF counted.exc # Nothing THEN counted ELSE WithAutoScale(counted.value)

\* lines 773-792: the local dict as the writes of lines 780, 786 and 792
\* leave it, also when line 789 raises after line 780 or 786 wrote
ParamsWritten(c) ==
    LET counted == WithNumReads(c, CopyOfParams(c))
    IN  IF counted.exc # Nothing THEN CopyOfParams(c)
        ELSE IF WithAutoScale(counted.value).exc # Nothing THEN counted.value
        ELSE WithAutoScale(counted.value).value

\* line 776: sampler_params.copy(), so the caller's dict keeps its items
CallerParamsAliased(c, written) ==
    IF Has(c, "sampler_params") THEN written ELSE EmptyDict
CallerParams(c, written) ==
    IF Has(c, "sampler_params") THEN c["sampler_params"] ELSE EmptyDict

WithOption(calls, key, items) ==
    calls \cup {Put(c, key, item) : c \in calls, item \in items}
\* Samplers: two nodes, with and without a programmable h_range.  Ranges: the
\* default (-1/6.1, 1/6.1), ranges up to and beyond -2..2, and a range given
\* upper end first.
FastCalls ==
    LET Samplers == {[properties |-> [h_range |-> <<-2000, 2000>>],
                      nodelist |-> <<1, 2>>],
                     [properties |-> [topology |-> "pegasus"], nodelist |-> <<1, 2>>]}
        Ranges == {<<-164, 164>>, <<-2000, 2000>>, <<-3000, 164>>, <<-164, 3000>>,
                   <<3000, -3000>>}
        ParamDicts == {EmptyDict, [num_reads |-> 5], [auto_scale |-> "False"],
                       [auto_scale |-> "True"], [auto_scale |-> "0"],
                       [num_reads |-> 5, auto_scale |-> "False"],
                       [num_reads |-> 7, annealing_time |-> 20]}
    IN  WithOption(WithOption(
            {[fn |-> "fast_effective_temperature", sampler |-> sm, seed |-> sd,
              h_range |-> hr, optimize_method |-> m, num_bootstrap_samples |-> 0] :
                sm \in Samplers, sd \in {1, 2}, hr \in Ranges, m \in Methods},
            "num_reads", {5, 7}), "sampler_params", ParamDicts)

\* what sampler.sample can answer: rows of spins over the nodes
SampleSets(nodelist) ==
    {<<m, nodelist>> : m \in Matrices(Len(nodelist), {-1, 1})}

InitFast ==
    /\ args = None
    /\ EstimatorIdle
    /\ call \in FastCalls
    /\ EntryIdle

\* lines 757-770: the range check and the problem
FastEnter ==
    /\ at = "idle"
    /\ call.fn = "fast_effective_temperature"
    /\ LET line == RangeCheck(call.sampler.properties, call.h_range)
       IN  IF line # 0
           THEN /\ out' = RaiseAt("ValueError", line)
                /\ at' = "raised"
                /\ UNCHANGED frame
           ELSE /\ frame' = [bqm |-> from_ising(call.sampler.nodelist,
                                        h_values(call.h_range, call.seed,
                                                 Len(call.sampler.nodelist)))]
                /\ at' = "params"
                /\ UNCHANGED out
    /\ UNCHANGED <<call, submitted, estimator>>

\* lines 772-795: the local copy of the parameters
FastParams ==
    /\ at = "params"
    /\ LET params == sampler_params0(call)
       IN  IF params.exc # Nothing
           THEN /\ out' = params
                /\ at' = "raised"
                /\ frame' = [bqm |-> frame.bqm,
                              sampler_params |-> CallerParams(call, ParamsWritten(call))]
           ELSE /\ frame' = [bqm |-> frame.bqm, sampler_params0 |-> params.value,
                              sampler_params |-> CallerParams(call, ParamsWritten(call))]
                /\ at' = "submit"
                /\ UNCHANGED out
    /\ UNCHANGED <<call, submitted, estimator>>

\* line 797: sampler.sample(bqm, **sampler_params0)
FastSubmit ==
    /\ at = "submit"
    /\ \E sampleset \in SampleSets(call.sampler.nodelist) :
          frame' = [bqm |-> frame.bqm, sampler_params0 |-> frame.sampler_params0,
                    sampler_params |-> frame.sampler_params, sampleset |-> sampleset]
    /\ submitted' = Append(submitted, [bqm |-> frame.bqm, params |-> frame.sampler_params0])
    /\ at' = "estimate"
    /\ UNCHANGED <<call, out, estimator>>

\* lines 799-808, num_bootstrap_samples = 0
FastReturn ==
    /\ at = "estimate"
    /\ LET energy == effective_field(frame.bqm, frame.sampleset, TRUE)
           excited == ~NoExcitations(max_excitation_all(energy[1]))
       IN  \E newton \in IF excited /\ call.optimize_method # "bisect"
                         THEN NewtonOutcomes ELSE {None} :
              LET r == PointEstimate(energy[1], None, call.optimize_method,
                                     DefaultBracket, newton)
              IN  IF r.exc # Nothing
                  THEN /\ out' = Raise(r.exc)
                       /\ at' = "raised"
                  ELSE /\ out' = Value(<<r.T_estimate, RZero>>)
                       /\ at' = "returned"
    /\ UNCHANGED <<call, frame, submitted, estimator>>

NextFast ==
    \/ FastEnter
    \/ FastParams
    \/ FastSubmit
    \/ FastReturn

SpecFast == InitFast /\ [][NextFast]_vars

(* --------------------------- CutOffComposite --------------------------- *)
\* The composite wraps a child sampler: it cuts the weak interactions of an
\* Ising model, drops the variables that are left without interactions, lets
\* the child sample the rest, and puts the dropped variables back.  Labels
\* 1..5 stand for 'a'..'e'; biases and the cutoff are in thousandths.
LabelSet(variables) == {variables[k] : k \in 1..Len(variables)}

\* the interactions that are kept: those whose |bias| is not below the cutoff
KeptSigned(quadratic, cutoff) == SelectSeq(quadratic, LAMBDA e : ~(e[3] < cutoff))
Kept(quadratic, cutoff) == SelectSeq(quadratic, LAMBDA e : ~(Abs(e[3]) < cutoff))

HasInteraction(quadratic, v) ==
    \E k \in 1..Len(quadratic) : quadratic[k][1] = v \/ quadratic[k][2] = v

\* the variables without an interaction among the kept ones, in model order
Isolated(variables, quadratic) ==
    SelectSeq(variables, LAMBDA v : ~HasInteraction(quadratic, v))

\* the model over some of the variables, with the given interactions
Restrict(bqm_, variables, quadratic) ==
    [vartype |-> bqm_.vartype, variables |-> variables,
     linear |-> [v \in LabelSet(variables) |-> bqm_.linear[v]],
     quadratic |-> quadratic]

\* the model for the child and the variables held back; when every variable
\* is isolated one of them, basis, is put back for the child
Cut(bqm_, cutoff, basis) ==
    LET kept == Kept(bqm_.quadratic, cutoff)
        isolated == Isolated(bqm_.variables, kept)
        connected == SelectSeq(bqm_.variables, LAMBDA v : HasInteraction(kept, v))
    IN  IF isolated # <<>> /\ connected = <<>>
        THEN [new |-> Restrict(bqm_, <<basis>>, kept),
              isolated |-> SelectSeq(isolated, LAMBDA v : v # basis)]
        ELSE [new |-> Restrict(bqm_, connected, kept), isolated |-> isolated]

\* which variable may be put back: any of them when all are isolated
Bases(bqm_, cutoff) ==
    IF Isolated(bqm_.variables, Kept(bqm_.quadratic, cutoff)) = bqm_.variables
    THEN LabelSet(bqm_.variables) ELSE {bqm_.variables[1]}

\* sum over the interactions of v with a variable the child sampled of
\* bias * that variable's value, from position k on
RECURSIVE SampledField(_, _, _, _, _)
SampledField(quadratic, labels, row, v, k) ==
    IF k > Len(quadratic) THEN 0
    ELSE LET e == quadratic[k]
             u == IF e[1] = v THEN e[2] ELSE e[1]
         IN  (IF (e[1] = v \/ e[2] = v) /\ u \in LabelSet(labels)
              THEN e[3] * row[IndexOf(labels, u)] ELSE 0)
             + SampledField(quadratic, labels, row, v, k + 1)

SampledNeighbours(quadratic, labels, v) ==
    \E k \in 1..Len(quadratic) :
        \/ quadratic[k][1] = v /\ quadratic[k][2] \in LabelSet(labels)
        \/ quadratic[k][2] = v /\ quadratic[k][1] \in LabelSet(labels)

\* the value given to a variable held back: the one that minimises
\* v (h_v + sum_u J_uv u) over the variables u the child sampled
RestoredValueFlipped(bqm_, labels, row, v) ==
    IF ~SampledNeighbours(bqm_.quadratic, labels, v)
    THEN (IF bqm_.linear[v] <= 0 THEN -1 ELSE 1)
    ELSE (IF SampledField(bqm_.quadratic, labels, row, v, 1) < -bqm_.linear[v]
          THEN -1 ELSE 1)
RestoredValue(bqm_, labels, row, v) ==
    IF ~SampledNeighbours(bqm_.quadratic, labels, v)
    THEN (IF bqm_.linear[v] <= 0 THEN 1 ELSE -1)
    ELSE (IF SampledField(bqm_.quadratic, labels, row, v, 1) < -bqm_.linear[v]
          THEN 1 ELSE -1)

\* the child's samples with the held-back variables appended as columns
RestoreIsolated(bqm_, samples_like, isolated) ==
    LET samples == samples_like[1]
        labels == samples_like[2]
    IN  << [s \in 1..Len(samples) |->
               samples[s] \o [c \in 1..Len(isolated) |->
                   RestoredValue(bqm_, labels, samples[s], isolated[c])]],
           labels \o isolated >>

\* the energy of one sample under a model
Energy(bqm_, labels, row) ==
    SumSeq([k \in 1..Len(labels) |-> bqm_.linear[labels[k]] * row[k]])
    + SumSeq([k \in 1..Len(bqm_.quadratic) |->
                 bqm_.quadratic[k][3] * row[IndexOf(labels, bqm_.quadratic[k][1])]
                                      * row[IndexOf(labels, bqm_.quadratic[k][2])]])

\* the sample set returned: samples, labels, energies under the given model
from_samples_bqm(samples_like, bqm_) ==
    [samples |-> samples_like[1], labels |-> samples_like[2],
     energies |-> [s \in 1..Len(samples_like[1]) |->
                      Energy(bqm_, samples_like[2], samples_like[1][s])]]

Ising(variables, linear, quadratic) ==
    [vartype |-> "SPIN", variables |-> variables, linear |-> linear,
     quadratic |-> quadratic]

\* the calls: the models and cutoffs of the tests, and further models: a
\* variable that has no interaction to begin with, a shorter tail, and a
\* strong positive and a strong negative interaction
CutCalls ==
    LET NoCutoff == [bqm |-> Ising(<<1, 2, 3>>, <<-4000, -4000, 0>>,
                               << <<1, 2, 3200>>, <<2, 3, 100>> >>), cutoff |-> -1000]
        TriangleTo3Path == [bqm |-> Ising(<<1, 2, 3>>, <<0, 0, 0>>,
                               << <<1, 2, -1000>>, <<2, 3, -1000>>, <<1, 3, 500>> >>),
                            cutoff |-> 750]
        TriangleTo2Path == [bqm |-> Ising(<<1, 2, 3>>, <<1200, 1000, 500>>,
                               << <<1, 2, -1000>>, <<2, 3, -500>>, <<1, 3, -500>> >>),
                            cutoff |-> 750]
        TriangleToEmpty == [bqm |-> Ising(<<1, 2, 3>>, <<1200, 1000, 500>>,
                               << <<1, 2, -500>>, <<2, 3, -500>>, <<1, 3, -500>> >>),
                            cutoff |-> 750]
        PathIsolatedTail == [bqm |-> Ising(<<1, 2, 3, 4, 5>>, <<0, 0, 0, 0, 0>>,
                               << <<1, 2, -1000>>, <<2, 3, -500>>, <<3, 4, -500>>,
                                  <<4, 5, -500>> >>),
                             cutoff |-> 750]
        LoneVariable == [bqm |-> Ising(<<1, 2, 3>>, <<1000, 1000, 1000>>,
                               << <<1, 2, 1000>> >>), cutoff |-> 500]
        ShortTail == [bqm |-> Ising(<<1, 2, 3, 4>>, <<0, 0, 0, 0>>,
                               << <<1, 2, -1000>>, <<2, 3, -500>>, <<3, 4, -500>> >>),
                      cutoff |-> 750]
        Signs == [bqm |-> Ising(<<1, 2, 3>>, <<0, -200, 300>>,
                               << <<1, 2, 2000>>, <<2, 3, -2000>>, <<1, 3, 100>> >>),
                  cutoff |-> 1000]
    IN  {[fn |-> "CutOffComposite.sample_ising", bqm |-> p.bqm, cutoff |-> p.cutoff] :
            p \in {NoCutoff, TriangleTo3Path, TriangleTo2Path, TriangleToEmpty,
                   PathIsolatedTail, LoneVariable, ShortTail, Signs}}

InitCut ==
    /\ args = None
    /\ EstimatorIdle
    /\ call \in CutCalls
    /\ EntryIdle

\* the cut and the removal of the isolated variables
CutOff ==
    /\ at = "idle"
    /\ call.fn = "CutOffComposite.sample_ising"
    /\ \E basis \in Bases(call.bqm, call.cutoff) :
          frame' = Cut(call.bqm, call.cutoff, basis)
    /\ at' = "child"
    /\ UNCHANGED <<call, out, submitted, estimator>>

\* child.sample(new): any samples over the variables of the model sent
ChildSample ==
    /\ at = "child"
    /\ submitted' = Append(submitted, [bqm |-> frame.new])
    /\ \E m \in Matrices(Len(frame.new.variables), {-1, 1}) :
          frame' = [new |-> frame.new, isolated |-> frame.isolated,
                    sampleset |-> <<m, frame.new.variables>>]
    /\ at' = "restore"
    /\ UNCHANGED <<call, out, estimator>>

\* the isolated variables are put back and the energies recomputed
CutReturn ==
    /\ at = "restore"
    /\ out' = Value(from_samples_bqm(
                  IF frame.isolated # <<>>
                  THEN RestoreIsolated(call.bqm, frame.sampleset, frame.isolated)
                  ELSE frame.sampleset,
                  call.bqm))
    /\ at' = "returned"
    /\ UNCHANGED <<call, frame, submitted, estimator>>

NextCut ==
    \/ CutOff
    \/ ChildSample
    \/ CutReturn

SpecCut == InitCut /\ [][NextCut]_vars

(* ------------------------------- the claims ---------------------------- *)
\* the matrix in use, the call being past the derivation of site_energy
Matrix == site_energy[1]
Derived == site_energy # None
Excited == Derived /\ max_excitation_all(Matrix) > 0
Frozen == Derived /\ max_excitation_all(Matrix) <= 0
Bisecting == args.optimize_method = "bisect"
Lo == args.T_bracket[1]
Hi == args.T_bracket[2]
ValidBracket == RLe(RZero, Lo) /\ RLt(Lo, Hi)
PastEstimate == pc \in {"bootstrap", "resample", "return", "returned", "raised"}
                /\ Derived
InBracket(T) == RLe(Lo, T) /\ RLe(T, Hi)

\* C1: the call returns T_estimate = 0 exactly when no entry of the
\* effective-field matrix is positive, for both optimize methods and every
\* bracket the call accepts.
C1_ZeroIffNoExcitation ==
    pc = "returned" =>
        (REq(T_estimate, RZero) <=> max_excitation_all(Matrix) <= 0)

C1_Witness ==
    /\ pc = "returned"
    /\ Excited
    /\ searched
    /\ ~REq(T_estimate, RZero)

\* C2 as stated: in bisection mode with 0 <= lo < hi the returned T_estimate
\* lies in [lo, hi] for every effective-field matrix.
C2_AsStated ==
    (pc = "returned" /\ Bisecting /\ ValidBracket) => InBracket(T_estimate)

\* C2: in bisection mode with 0 <= lo < hi the returned T_estimate lies in
\* [lo, hi] for every effective-field matrix with a positive excitation.
C2_EstimateInBracket ==
    (pc = "returned" /\ Bisecting /\ ValidBracket /\ Excited)
        => InBracket(T_estimate)

C2_Witness ==
    /\ pc = "returned"
    /\ Bisecting
    /\ ValidBracket
    /\ Excited
    /\ searched
    /\ root_results # None
    /\ InBracket(T_estimate)

\* C3: in bisection mode a bracket violating 0 <= lo < hi makes the call
\* raise ValueError and return no estimate, for every matrix and T_guess.
C3_BadBracketRaises ==
    (pc \in {"returned", "raised"} /\ Bisecting /\ ~ValidBracket)
        => (pc = "raised" /\ exception = "ValueError")

\* C4: in bisection mode with a valid bracket and a positive excitation, if
\* the objective at x = -1/lo is negative the call returns T_bracket[0]
\* exactly, warns instead of raising, does not evaluate the objective at the
\* upper bound and runs no root search.
C4_ClampToLower ==
    (PastEstimate /\ Bisecting /\ ValidBracket /\ Excited /\ ~IsZero(Lo)
     /\ d_mean_log_pseudo_likelihood(Matrix, NegInv(Lo)) < 0)
        => /\ pc # "raised"
           /\ exception = Nothing
           /\ T_estimate = Lo
           /\ warned = "below"
           /\ "hi" \notin evaluated
           /\ ~searched

C4_Witness ==
    /\ pc = "returned"
    /\ Bisecting
    /\ Excited
    /\ warned = "below"
    /\ T_estimate = Lo
    /\ evaluated = {"lo"}

\* C5: in bisection mode with a valid bracket and a positive excitation, if
\* the objective is not negative at x = -1/lo and positive at x = -1/hi the
\* call returns T_bracket[1] exactly, warns instead of raising and runs no
\* root search.
C5_ClampToUpper ==
    (PastEstimate /\ Bisecting /\ ValidBracket /\ Excited /\ ~IsZero(Lo)
     /\ d_mean_log_pseudo_likelihood(Matrix, NegInv(Lo)) >= 0
     /\ d_mean_log_pseudo_likelihood(Matrix, NegInv(Hi)) > 0)
        => /\ pc # "raised"
           /\ exception = Nothing
           /\ T_estimate = Hi
           /\ warned = "above"
           /\ ~searched

C5_Witness ==
    /\ pc = "returned"
    /\ Bisecting
    /\ Excited
    /\ warned = "above"
    /\ T_estimate = Hi
    /\ evaluated = {"lo", "hi"}

\* C6: in bisection mode a bracket with lo = 0 < hi is accepted: for every
\* matrix with a positive excitation the call ends without raising and
\* returns an estimate in [0, hi].
C6_ZeroLowerBoundAccepted ==
    (pc \in {"returned", "raised"} /\ Bisecting /\ IsZero(Lo) /\ RLt(RZero, Hi)
     /\ Excited)
        => (pc = "returned" /\ InBracket(T_estimate))

\* C7: two invocations with the same seed, matrix and other arguments return
\* identical bootstrap arrays, whatever use is made of random numbers before
\* or between them (stated for the bisection, whose result is a function of
\* its arguments).
C7_SeedFixesBootstrap ==
    (invocation = 2 /\ pc = "returned" /\ Bisecting)
        => T_bootstrap_estimates = first_result[2]

\* C8: the bootstrap array returned has exactly N = num_bootstrap_samples
\* entries, and every replicate is estimated from exactly N rows of the
\* matrix, each row index drawn from 0..num_samples-1, all columns kept.
C8_ReplicateShape ==
    /\ pc = "returned" => Len(T_bootstrap_estimates) = args.num_bootstrap_samples
    /\ \A k \in 1..Len(replicates) :
          LET rep == replicates[k]
          IN  /\ Len(rep.indices) = args.num_bootstrap_samples
              /\ Len(rep.site_energy[1]) = args.num_bootstrap_samples
              /\ \A j \in 1..Len(rep.indices) :
                    /\ rep.indices[j] \in 0..(Len(Matrix) - 1)
                    /\ rep.site_energy[1][j] = Matrix[rep.indices[j] + 1]
              /\ rep.site_energy[2] = site_energy[2]

C8_Witness ==
    /\ pc = "returned"
    /\ args.num_bootstrap_samples = 1
    /\ Len(Matrix) = 2
    /\ Len(replicates) = 1
    /\ Len(replicates[1].site_energy[1]) = 1

\* C9: when every excitation is <= 0 the call returns T_estimate = 0 and an
\* all-zero bootstrap array of length N (empty for N = 0), with no root
\* search, no evaluation at the bracket and no resampling.
C9_FrozenSamples ==
    (Frozen /\ pc # "estimate")
        => /\ pc \in {"return", "returned"}
           /\ T_estimate = RZero
           /\ T_bootstrap_estimates = [i \in 1..args.num_bootstrap_samples |-> RZero]
           /\ ~searched
           /\ evaluated = {}
           /\ replicates = <<>>
           /\ prng = NoObject
           /\ exception = Nothing

C9_Witness ==
    /\ pc = "returned"
    /\ Frozen
    /\ args.num_bootstrap_samples > 0
    /\ T_estimate = RZero

FieldReturned == call.fn = "effective_field" /\ at = "returned"

\* the batch the call works on: its column labels and its rows
BatchLabels == IF call.samples = None THEN call.bqm.variables ELSE call.samples[2]
BatchMatrix ==
    IF call.samples = None THEN << [i \in 1..Len(call.bqm.variables) |-> 1] >>
    ELSE call.samples[1]

\* the {-1,+1} models equal in energy to the {0,1} models, worked out by hand:
\* h_i = a_i / 2 + sum_j b_ij / 4, J_ij = b_ij / 4
IsingOfQuboPair == [vartype |-> "SPIN", variables |-> <<1, 2>>,
                    linear |-> <<2000, -1000>>, quadratic |-> << <<1, 2, 1000>> >>]
IsingOfQuboPath == [vartype |-> "SPIN", variables |-> <<1, 2, 3>>,
                    linear |-> <<-1000, 3000, 2000>>,
                    quadratic |-> << <<1, 2, -1000>>, <<2, 3, 2000>> >>]
IsingOf(b) == IF b = QuboPair THEN IsingOfQuboPair
              ELSE IF b = QuboPath THEN IsingOfQuboPath ELSE b

\* the spin of label v in sample s of the batch
SpinOf(s, v) ==
    LET value == BatchMatrix[s][CHOOSE k \in 1..Len(BatchLabels) : BatchLabels[k] = v]
    IN  IF call.bqm.vartype = "BINARY" THEN 2 * value - 1 ELSE value

\* sum over the stored pairs that contain v of J times the spin at the other end
RECURSIVE NeighbourSum(_, _, _, _)
NeighbourSum(quadratic, s, v, k) ==
    IF k > Len(quadratic) THEN 0
    ELSE (IF quadratic[k][1] = v THEN quadratic[k][3] * SpinOf(s, quadratic[k][2])
          ELSE IF quadratic[k][2] = v THEN quadratic[k][3] * SpinOf(s, quadratic[k][1])
          ELSE 0)
         + NeighbourSum(quadratic, s, v, k + 1)

\* h_v + sum_j J_vj s_j, and the value the call owes for label v in sample s
FieldOf(s, v) ==
    IsingOf(call.bqm).linear[v] + NeighbourSum(IsingOf(call.bqm).quadratic, s, v, 1)
Owed(s, v) ==
    IF call.current_state_energy THEN 2 * SpinOf(s, v) * FieldOf(s, v) ELSE FieldOf(s, v)

\* C11: with current_state_energy = False the entry for sample s and variable i
\* is h_i + sum over neighbours j of J_ij s_j, every stored pair counted once at
\* each of its two ends; one coupling J, zero linear terms and the all +1
\* sample give J for both variables.
C11_FieldIsBiasPlusNeighbours ==
    (FieldReturned /\ ~call.current_state_energy /\ call.bqm.vartype = "SPIN") =>
        /\ \A s \in 1..Len(out.value[1]) : \A k \in 1..Len(out.value[2]) :
               out.value[1][s][k] = FieldOf(s, out.value[2][k])
        /\ \A J \in {1000, -500} :
               (call.bqm = Coupled(J) /\ call.samples = None)
                   => out.value[1] = << <<J, J>> >>
C11_Witness ==
    /\ FieldReturned
    /\ ~call.current_state_energy
    /\ call.bqm = Coupled(1000)
    /\ call.samples = None
    /\ out.value[1] = << <<1000, 1000>> >>

\* C12: with current_state_energy = True every entry is 2 s_i times the entry
\* of the field form for the same model and samples; the chain of 5 variables
\* with couplings -0.5 and the all +1 sample gives [-1, -2, -2, -2, -1].
C12_ExcitationIsTwoSpinField ==
    (FieldReturned /\ call.current_state_energy) =>
        /\ \A s \in 1..Len(out.value[1]) : \A k \in 1..Len(out.value[2]) :
               out.value[1][s][k] =
                   2 * SpinOf(s, out.value[2][k])
                     * effective_field(call.bqm, call.samples, FALSE)[1][s][k]
        /\ (call.bqm = Chain /\ BatchMatrix = << <<1, 1, 1, 1, 1>> >>)
               => out.value[1] = << <<-1000, -2000, -2000, -2000, -1000>> >>
C12_Witness ==
    /\ FieldReturned
    /\ call.current_state_energy
    /\ call.bqm = Chain
    /\ call.samples = << << <<1, 1, 1, 1, 1>> >>, <<1, 2, 3, 4, 5>> >>
    /\ out.value[1] = << <<-1000, -2000, -2000, -2000, -1000>> >>

\* C13 as stated: given a batch whose columns are in another order than the
\* model declares, the result is in the model's declared order: the labels
\* returned are the model's variables and column k is the field of the
\* model's k-th variable.
C13_ModelOrder ==
    (FieldReturned /\ call.samples # None) =>
        /\ out.value[2] = call.bqm.variables
        /\ \A s \in 1..Len(out.value[1]) : \A k \in 1..Len(call.bqm.variables) :
               out.value[1][s][k] = Owed(s, call.bqm.variables[k])

\* C13 amended: the result keeps the order of the batch: the labels returned
\* are the batch's labels and column k is the field of the batch's k-th
\* variable, the model's coefficients being read in that order.
C13_BatchOrder ==
    (FieldReturned /\ call.samples # None) =>
        /\ out.value[2] = call.samples[2]
        /\ \A s \in 1..Len(out.value[1]) : \A k \in 1..Len(call.samples[2]) :
               out.value[1][s][k] = Owed(s, call.samples[2][k])
C13_Witness ==
    /\ FieldReturned
    /\ call.bqm = Biased
    /\ call.samples = << << <<1, -1, 1>> >>, <<1, 2, 3>> >>
    /\ ~call.current_state_energy
    /\ out.value = << << <<0, -4000, 3500>> >>, <<1, 2, 3>> >>

\* the batch with every value v replaced by 2v - 1
SpinBatch(samples_like) ==
    IF samples_like = None THEN None
    ELSE << [s \in 1..Len(samples_like[1]) |->
                [i \in 1..Len(samples_like[1][s]) |-> 2 * samples_like[1][s][i] - 1]],
            samples_like[2] >>

\* C14: for a model over {0,1} the call returns what it returns for the
\* equivalent {-1,+1} model and the batch with every v replaced by 2v - 1, in
\* the field form and in the excitation form, and it leaves the caller's
\* model object as it was.
C14_BinaryAsSpin ==
    [][(call.fn = "effective_field" /\ at = "idle" /\ at' = "returned"
            /\ call.bqm.vartype = "BINARY") =>
        /\ out'.value = effective_field(IsingOf(call.bqm), SpinBatch(call.samples),
                                       call.current_state_energy)
        /\ call'.bqm = call.bqm]_vars
C14_Witness ==
    /\ FieldReturned
    /\ call.bqm = QuboPair
    /\ call.samples = << << <<0, 1>> >>, <<1, 2>> >>
    /\ ~call.current_state_energy
    /\ out.value[1] = << <<3000, -2000>> >>

(* --------------------- claims on the unit conversions ------------------ *)
Ended == at \in {"returned", "raised"}
RaisedValueError == at = "raised" /\ out.exc = "ValueError"
CurrentConversion == call.fn \in {"Ip_in_units_of_B", "h_to_fluxbias", "fluxbias_to_h"}

\* C15 as stated: Ip_in_units_of_B, h_to_fluxbias and fluxbias_to_h raise
\* ValueError whenever any of units_B, units_MAFM, units_Ip is unrecognized,
\* whether or not Ip is supplied.
C15_AnyBadTagRaises ==
    (CurrentConversion /\ Ended
        /\ (call.units_B \notin {"GHz", "J"} \/ call.units_MAFM \notin {"pH", "H"}
            \/ call.units_Ip \notin {"uA", "A"}))
    => RaisedValueError

\* C15 amended: they raise ValueError exactly when units_B is unrecognized,
\* or Ip is not supplied and units_MAFM is unrecognized, or Ip is supplied
\* and units_Ip is unrecognized; the tag of the quantity that is not used is
\* not looked at.
C15_UsedBadTagRaises ==
    (CurrentConversion /\ Ended) =>
        (RaisedValueError <=>
            \/ call.units_B \notin {"GHz", "J"}
            \/ call.Ip = None /\ call.units_MAFM \notin {"pH", "H"}
            \/ call.Ip # None /\ call.units_Ip \notin {"uA", "A"})
C15_Witness ==
    /\ call.fn = "h_to_fluxbias"
    /\ call.Ip # None
    /\ call.units_B = "GHz"
    /\ call.units_MAFM = "pH"
    /\ call.units_Ip = "mA"
    /\ RaisedValueError

\* C16: freezeout_effective_temperature raises ValueError, as the other
\* conversions do, when units_B is not 'GHz' or 'J' or units_T is not 'mK' or
\* 'K', and returns nothing then.
C16_FreezeoutValueError ==
    (call.fn = "freezeout_effective_temperature" /\ Ended
        /\ (call.units_B \notin {"GHz", "J"} \/ call.units_T \notin {"mK", "K"}))
    => RaisedValueError

\* the caller has h_to_fluxbias(h) converted back by fluxbias_to_h
RoundTripDone == call.fn = "fluxbias_to_h" /\ frame # None /\ at = "returned"

\* C17 as stated: fluxbias_to_h(h_to_fluxbias(h)) equals h for every h and
\* every valid combination of parameters, the same in both calls.
C17_RoundTripExact == RoundTripDone => out.value = frame[1]

\* |x - y| <= 5 * 2^-MantBits * |y|
Close(x, y) ==
    IF y[1] = 0 THEN x[1] = 0
    ELSE /\ x[2] - y[2] \in -2..2
         /\ Abs(x[1] * Pow2(x[2] - y[2] + 2) - 4 * y[1]) * Pow2(MantBits)
                <= 5 * Abs(4 * y[1])

\* C17 amended: fluxbias_to_h(h_to_fluxbias(h)) equals h within floating-point
\* tolerance: the four rounded operations leave a relative error of at most
\* 5 units of roundoff, and 0 comes back as 0.
C17_RoundTripClose == RoundTripDone => Close(out.value, frame[1])
C17_Witness ==
    /\ RoundTripDone
    /\ call.Ip = None
    /\ frame[1] # FZero
    /\ out.value # frame[1]
    /\ Close(out.value, frame[1])

(* ----------------- claims on fast_effective_temperature ---------------- *)
Fast == call.fn = "fast_effective_temperature"
Reported == Has(call.sampler.properties, "h_range")
BelowRange == Reported /\ call.h_range[1] < call.sampler.properties["h_range"][1]
AboveRange == Reported /\ call.h_range[2] > call.sampler.properties["h_range"][2]
GivenParams == IF Has(call, "sampler_params") THEN call["sampler_params"] ELSE EmptyDict
GivenAutoScale == Has(GivenParams, "auto_scale")
GivenBothReads == Has(call, "num_reads") /\ Has(GivenParams, "num_reads")

\* C18: when the sampler reports an h_range and h_range[0] is below its lower
\* bound or h_range[1] above its upper bound, the call raises ValueError; when
\* the request is inside the reported range, or no h_range is reported, the
\* range check raises nothing.
C18_RangeChecked ==
    (Fast /\ at # "idle") =>
        /\ (BelowRange \/ AboveRange)
               => (at = "raised" /\ out.exc = "ValueError" /\ out.line \in {763, 766})
        /\ ~(BelowRange \/ AboveRange)
               => ~(at = "raised" /\ Has(out, "line") /\ out.line \in {763, 766})
C18_Witness ==
    /\ Fast
    /\ ~BelowRange
    /\ AboveRange
    /\ at = "raised"
    /\ out.exc = "ValueError"
    /\ submitted = <<>>

\* C19: every submission to the sampler carries auto_scale = False, also when
\* the caller gave no auto_scale; a caller's auto_scale that is not False is
\* rejected with ValueError before anything is submitted.
C19_AutoScaleOff ==
    Fast =>
        /\ \A i \in 1..Len(submitted) :
               /\ Has(submitted[i].params, "auto_scale")
               /\ submitted[i].params["auto_scale"] = "False"
        /\ (GivenAutoScale /\ GivenParams["auto_scale"] # "False") =>
               /\ submitted = <<>>
               /\ at \notin {"submit", "estimate", "returned"}
               /\ at = "raised" => out.exc = "ValueError"
C19_Witness ==
    /\ Fast
    /\ ~GivenAutoScale
    /\ Len(submitted) = 1
    /\ submitted[1].params["auto_scale"] = "False"

\* C20: the num_reads sent to the sampler is the num_reads argument when it
\* is given, else sampler_params['num_reads'] when present, else 100; a
\* num_reads argument that differs from sampler_params['num_reads'] raises
\* ValueError, one equal to it is accepted.
C20_NumReadsSent ==
    Fast =>
        /\ \A i \in 1..Len(submitted) :
               submitted[i].params["num_reads"] =
                   IF Has(call, "num_reads") THEN call["num_reads"]
                   ELSE IF Has(GivenParams, "num_reads") THEN GivenParams["num_reads"]
                   ELSE 100
        /\ (GivenBothReads /\ call["num_reads"] # GivenParams["num_reads"]) =>
               /\ submitted = <<>>
               /\ at \notin {"submit", "estimate", "returned"}
               /\ at = "raised" => out.exc = "ValueError"
        /\ (GivenBothReads /\ call["num_reads"] = GivenParams["num_reads"]) =>
               ~(at = "raised" /\ Has(out, "line") /\ out.line = 783)
C20_Witness ==
    /\ Fast
    /\ GivenBothReads
    /\ call["num_reads"] = 5
    /\ Len(submitted) = 1
    /\ submitted[1].params["num_reads"] = 5

Submissions == 1..Len(submitted)
SamplerRange == call.sampler.properties["h_range"]
Within(x, lo, hi) == lo <= x /\ x <= hi
Between(x, a, b) == Within(x, a, b) \/ Within(x, b, a)
Nodes == {call.sampler.nodelist[k] : k \in 1..Len(call.sampler.nodelist)}

\* C21: the submitted model has no quadratic terms and exactly one linear
\* bias per sampler node, every bias lies between h_range[0] and h_range[1],
\* and when the sampler reports an h_range every submitted bias lies within
\* the sampler's programmable range.
C21_SubmittedBiasesInRange ==
    Fast =>
        \A i \in Submissions :
            LET bqm_ == submitted[i].bqm
            IN  /\ bqm_.quadratic = <<>>
                /\ DOMAIN bqm_.linear = Nodes
                /\ \A v \in Nodes :
                       /\ Between(bqm_.linear[v], call.h_range[1], call.h_range[2])
                       /\ Reported =>
                              Within(bqm_.linear[v], SamplerRange[1], SamplerRange[2])

InvalidArgumentRaised ==
    at = "raised" /\ Has(out, "line") /\ out.line \in {763, 766, 783, 789}

\* C22: an invalid-argument error (h_range, num_reads, auto_scale) is raised
\* before the sampler is invoked: on such an error the sampler has received
\* no submission, on success it has received exactly one, and the caller's
\* sampler_params dict is never modified.
C22_ErrorsBeforeSubmission ==
    Fast =>
        /\ InvalidArgumentRaised => submitted = <<>>
        /\ at = "returned" => Len(submitted) = 1
        /\ Len(submitted) <= 1
        /\ Has(frame, "sampler_params") => frame.sampler_params = GivenParams
C22_Witness ==
    /\ Fast
    /\ Has(call, "sampler_params")
    /\ ~Has(GivenParams, "num_reads")
    /\ at = "returned"
    /\ Len(submitted) = 1
    /\ Has(submitted[1].params, "num_reads")
    /\ frame.sampler_params = call["sampler_params"]

(* ---------------------- claims on CutOffComposite ---------------------- *)
Cutting == call.fn = "CutOffComposite.sample_ising"
Original == call.bqm
\* the interactions that are not below the cutoff in absolute value
Strong == {e \in {Original.quadratic[k] : k \in 1..Len(Original.quadratic)} :
              e[3] >= call.cutoff \/ -e[3] >= call.cutoff}
Linked == {v \in LabelSet(Original.variables) : \E e \in Strong : v \in {e[1], e[2]}}
NothingCut == Cardinality(Strong) = Len(Original.quadratic)
SentModel == submitted[1].bqm
SentSet == LabelSet(SentModel.variables)
SentAsCut ==
    /\ {SentModel.quadratic[k] : k \in 1..Len(SentModel.quadratic)} = Strong
    /\ Len(SentModel.quadratic) = Cardinality(Strong)
    /\ IF Linked # {} THEN SentSet = Linked
       ELSE Cardinality(SentSet) = 1 /\ SentSet \subseteq LabelSet(Original.variables)
    /\ Len(SentModel.variables) = Cardinality(SentSet)
    /\ DOMAIN SentModel.linear = SentSet
    /\ \A v \in SentSet : SentModel.linear[v] = Original.linear[v]

Returned == Cutting /\ at = "returned"
Rows == 1..Len(out.value.samples)
Column(v) == IndexOf(out.value.labels, v)
Spin(s, v) == out.value.samples[s][Column(v)]
Removed == LabelSet(Original.variables) \ SentSet
\* the original energy of sample s with the value x for variable v
EnergyWith(s, v, x) ==
    SumSeq([k \in 1..Len(Original.variables) |->
               Original.linear[Original.variables[k]]
               * (IF Original.variables[k] = v THEN x ELSE Spin(s, Original.variables[k]))])
    + SumSeq([k \in 1..Len(Original.quadratic) |->
               Original.quadratic[k][3]
               * (IF Original.quadratic[k][1] = v THEN x ELSE Spin(s, Original.quadratic[k][1]))
               * (IF Original.quadratic[k][2] = v THEN x ELSE Spin(s, Original.quadratic[k][2]))])
\* the part of the original energy that couples v to the variables sent
LocalEnergy(s, v, x) ==
    x * (Original.linear[v]
         + SumSeq([k \in 1..Len(Original.quadratic) |->
               LET e == Original.quadratic[k]
               IN  IF e[1] = v /\ e[2] \in SentSet THEN e[3] * Spin(s, e[2])
                   ELSE IF e[2] = v /\ e[1] \in SentSet THEN e[3] * Spin(s, e[1])
                   ELSE 0]))
Complete ==
    /\ LabelSet(out.value.labels) = LabelSet(Original.variables)
    /\ Len(out.value.labels) = Len(Original.variables)
    /\ \A s \in Rows :
           /\ Len(out.value.samples[s]) = Len(Original.variables)
           /\ \A v \in LabelSet(Original.variables) : Spin(s, v) \in {-1, 1}
           /\ out.value.energies[s] = EnergyWith(s, Original.variables[1],
                                                 Spin(s, Original.variables[1]))

Replicating == args.num_bootstrap_samples > 0 /\ Excited

\* C25: a call with replicate count N > 0 and a positive excitation invokes
\* the point estimate exactly N further times, each with bootstrap count 0
\* and with T_guess equal to the outer point estimate (also a clamped one);
\* no nested call resamples, and the call ends after the N replicates.
C25_NestedCalls ==
    Replicating =>
        /\ Len(replicates) <= args.num_bootstrap_samples
        /\ pc \in {"return", "returned"}
               => Len(replicates) = args.num_bootstrap_samples
        /\ pc = "resample" => Len(replicates) = bs
        /\ \A k \in 1..Len(replicates) :
               /\ replicates[k].num_bootstrap_samples = 0
               /\ replicates[k].T_guess = T_estimate
C25_Witness ==
    /\ pc = "returned"
    /\ Replicating
    /\ args.num_bootstrap_samples = 2
    /\ warned = "above"
    /\ Len(replicates) = 2
    /\ replicates[2].T_guess = Hi

\* C26: whenever the bisection search is started the objective is >= 0 at
\* x = -1/lo and <= 0 at x = -1/hi, and the initial point x0 handed to the
\* search lies in [-1/lo, -1/hi].
C26_BracketHoldsRoot ==
    (Bisecting /\ searched /\ pc \in {"bootstrap", "return", "raised"}) =>
        /\ d_mean_log_pseudo_likelihood(Matrix, NegInv(Lo)) >= 0
        /\ d_mean_log_pseudo_likelihood(Matrix, NegInv(Hi)) <= 0
        /\ RLe(NegInv(Lo), x0)
        /\ RLe(x0, NegInv(Hi))
C26_Witness ==
    /\ Bisecting
    /\ searched
    /\ pc = "return"
    /\ args.T_guess = None
    /\ max_excitation_all(Matrix) = 1000
    /\ Lo = <<1500, 1>>
    /\ x0 = <<-1, 2000>>
    /\ InBracket(T_estimate)

\* C27: with an optimize_method other than 'bisect' the initial point is
\* x0 = -1/T_guess when a (positive) T_guess is given and -1/(maximum
\* excitation) otherwise, whatever T_bracket is.
C27_InitialPointFreeOfBracket ==
    (~Bisecting /\ Excited /\ pc \in {"bootstrap", "return"}
     /\ (args.T_guess = None \/ RLt(RZero, args.T_guess))) =>
        x0 = IF args.T_guess = None
             THEN Norm(<<-1, max_excitation_all(Matrix)>>)
             ELSE NegInv(args.T_guess)

\* C28: the replicates are estimated with the optimize method and T_bracket
\* of the point estimate, so with bisection and a bracket [lo, hi] every
\* entry of the returned bootstrap array is 0 or lies in [lo, hi].
C28_ReplicatesInBracket ==
    (pc = "returned" /\ Bisecting /\ ValidBracket) =>
        \A k \in 1..Len(T_bootstrap_estimates) :
            \/ REq(T_bootstrap_estimates[k], RZero)
            \/ InBracket(T_bootstrap_estimates[k])
====
